---------------------------- MODULE Spec2Model ----------------------------
(* Model of the self-learning chatbot of src/chatbot.py: the dialog loop    *)
(* (fact lookup, generation, detail chunks, confirmation) and the pure text *)
(* functions it uses.  Text is a sequence of one-character strings.         *)
EXTENDS Integers, Sequences, FiniteSets, TLC

(***************************************************************************)
(* Python str primitives                                                   *)
(***************************************************************************)
WhiteSpace == {" ", "\n"}

Marks == {".", "?", "!"}

LeadChars == WhiteSpace \cup {".", ";", ",", ":", "-"}

MinOf(S) == CHOOSE x \in S : \A y \in S : x <= y

Rep(c, n) == [i \in 1..n |-> c]

\* str.lower(), on the letters the model's inputs use
LowerChar(c) ==
    CASE c = "A" -> "a"
      [] c = "D" -> "d"
      [] c = "E" -> "e"
      [] c = "H" -> "h"
      [] c = "Y" -> "y"
      [] OTHER -> c

Lower(s) == [i \in 1..Len(s) |-> LowerChar(s[i])]

\* index of the first non-whitespace character at or after i (Len(s) + 1
\* if none), and of the last one at or before i (0 if none)
RECURSIVE FirstInk(_, _)
FirstInk(s, i) ==
    IF i <= Len(s) /\ s[i] \in WhiteSpace THEN FirstInk(s, i + 1) ELSE i

RECURSIVE LastInk(_, _)
LastInk(s, i) ==
    IF i >= 1 /\ s[i] \in WhiteSpace THEN LastInk(s, i - 1) ELSE i

\* str.strip(): drop leading and trailing whitespace
Strip(s) == SubSeq(s, FirstInk(s, 1), LastInk(s, Len(s)))

\* str.startswith
StartsWith(s, w) == Len(s) >= Len(w) /\ SubSeq(s, 1, Len(w)) = w

\* the `in` operator on strings: w is a substring of s
Contains(s, w) ==
    \E i \in 0..(Len(s) - Len(w)) : SubSeq(s, i + 1, i + Len(w)) = w

\* a join with two spaces between the parts
JoinSp_wide(a, b) == a \o <<" ", " ">> \o b

\* f"{a} {b}"
JoinSp(a, b) == a \o <<" ">> \o b

(***************************************************************************)
(* rapidfuzz.fuzz.ratio: normalized Indel similarity, 0..100               *)
(***************************************************************************)
RECURSIVE LCS(_, _)
LCS(a, b) ==
    IF a = <<>> \/ b = <<>> THEN 0
    ELSE IF Head(a) = Head(b) THEN 1 + LCS(Tail(a), Tail(b))
    ELSE LET x == LCS(Tail(a), b)
             y == LCS(a, Tail(b))
         IN  IF x >= y THEN x ELSE y

\* fuzz.ratio(a, b) > 85, with ratio = 100 * 2*LCS / (len(a) + len(b))
\* and ratio = 100 when both strings are empty
Threshold == 85

RatioAbove(a, b) ==
    IF Len(a) + Len(b) = 0 THEN 100 > Threshold
    ELSE 200 * LCS(a, b) > Threshold * (Len(a) + Len(b))

(***************************************************************************)
(* split_answer                                                            *)
(***************************************************************************)
\* re.sub(r'^[\s.;,:-]+', '', s)
RECURSIVE SkipLead(_, _)
SkipLead(s, i) ==
    IF i <= Len(s) /\ s[i] \in LeadChars THEN SkipLead(s, i + 1) ELSE i

\* nothing stripped
StripLead_none(s) == s

StripLead(s) == SubSeq(s, SkipLead(s, 1), Len(s))

split_answer(answer_text) ==
    IF answer_text = <<>> THEN [short |-> <<>>, detail |-> <<>>]
    ELSE LET M == {i \in 1..Len(answer_text) : answer_text[i] \in Marks}
         IN  IF M = {} THEN [short |-> answer_text, detail |-> <<>>]
             ELSE LET split_index == MinOf(M)
                  IN  [short  |-> Strip(SubSeq(answer_text, 1, split_index)),
                       detail |-> StripLead(Strip(SubSeq(answer_text,
                                      split_index + 1, Len(answer_text))))]

(***************************************************************************)
(* chunk_text                                                              *)
(***************************************************************************)
\* end of the run of spaces that starts at i (the greedy ' +')
RECURSIVE RunEnd(_, _)
RunEnd(text, i) ==
    IF i < Len(text) /\ text[i + 1] = " " THEN RunEnd(text, i + 1) ELSE i

\* re.split(r'(?<=[.!?]) +', text): cut at every run of spaces that follows
\* a terminating mark
RECURSIVE SplitFrom(_, _)
SplitFrom(text, from) ==
    LET S == {i \in from..Len(text) :
                 i > 1 /\ text[i] = " " /\ text[i - 1] \in Marks}
    IN  IF S = {} THEN <<SubSeq(text, from, Len(text))>>
        ELSE LET i == MinOf(S)
             IN  <<SubSeq(text, from, i - 1)>>
                     \o SplitFrom(text, RunEnd(text, i) + 1)

Sentences(text) == SplitFrom(text, 1)

\* the packing loop without lines 117-118: the chunk still open after the
\* last sentence is lost
RECURSIVE Pack_nofinal(_, _, _, _, _)
Pack_nofinal(sentences, k, chunks, current_chunk, max_length) ==
    IF k > Len(sentences) THEN chunks
    ELSE LET sentence == Strip(sentences[k])
         IN  IF sentence = <<>>
             THEN Pack_nofinal(sentences, k + 1, chunks, current_chunk,
                               max_length)
             ELSE IF Len(current_chunk) + Len(sentence) + 1 <= max_length
             THEN Pack_nofinal(sentences, k + 1, chunks,
                               IF current_chunk # <<>>
                               THEN current_chunk \o <<" ">> \o sentence
                               ELSE sentence,
                               max_length)
             ELSE Pack_nofinal(sentences, k + 1,
                               Append(chunks, current_chunk), sentence,
                               max_length)

\* the packing loop with < for <= at line 108: a sentence that fills the
\* chunk exactly starts a new one
RECURSIVE Pack_strict(_, _, _, _, _)
Pack_strict(sentences, k, chunks, current_chunk, max_length) ==
    IF k > Len(sentences)
    THEN IF current_chunk # <<>> THEN Append(chunks, current_chunk) ELSE chunks
    ELSE LET sentence == Strip(sentences[k])
         IN  IF sentence = <<>>
             THEN Pack_strict(sentences, k + 1, chunks, current_chunk,
                              max_length)
             ELSE IF Len(current_chunk) + Len(sentence) + 1 < max_length
             THEN Pack_strict(sentences, k + 1, chunks,
                              IF current_chunk # <<>>
                              THEN current_chunk \o <<" ">> \o sentence
                              ELSE sentence,
                              max_length)
             ELSE Pack_strict(sentences, k + 1,
                              Append(chunks, current_chunk), sentence,
                              max_length)

\* the packing loop: k is the next sentence, chunks and current_chunk the
\* loop's variables
RECURSIVE Pack(_, _, _, _, _)
Pack(sentences, k, chunks, current_chunk, max_length) ==
    IF k > Len(sentences)
    THEN IF current_chunk # <<>> THEN Append(chunks, current_chunk) ELSE chunks
    ELSE LET sentence == Strip(sentences[k])
         IN  IF sentence = <<>>
             THEN Pack(sentences, k + 1, chunks, current_chunk, max_length)
             ELSE IF Len(current_chunk) + Len(sentence) + 1 <= max_length
             THEN Pack(sentences, k + 1, chunks,
                       IF current_chunk # <<>>
                       THEN JoinSp(current_chunk, sentence)
                       ELSE sentence,
                       max_length)
             ELSE Pack(sentences, k + 1, Append(chunks, current_chunk),
                       sentence, max_length)

chunk_text(text, max_length) ==
    IF text = <<>> THEN <<>>
    ELSE Pack(Sentences(text), 1, <<>>, <<>>, max_length)

(***************************************************************************)
(* Intent classifiers                                                      *)
(***************************************************************************)
yes_keywords ==
    { <<"y", "e", "s">>,
      <<"s", "u", "r", "e">>,
      <<"m", "o", "r", "e">>,
      <<"t", "e", "l", "l", " ", "m", "e">>,
      <<"e", "x", "p", "l", "a", "i", "n">>,
      <<"d", "e", "t", "a", "i", "l">>,
      <<"p", "l", "e", "a", "s", "e">>,
      <<"y", "e", "a", "h">>,
      <<"y", "e", "p">>,
      <<"o", "k">>,
      <<"o", "k", "a", "y">>,
      <<"g", "o", " ", "o", "n">>,
      <<"e", "l", "a", "b", "o", "r", "a", "t", "e">> }

\* the typographic apostrophe of "that's enough" is written ' here
no_keywords ==
    { <<"n", "o">>,
      <<"n", "a", "h">>,
      <<"n", "o", "p", "e">>,
      <<"n", "o", "t", " ", "n", "o", "w">>,
      <<"t", "h", "a", "n", "k", "s">>,
      <<"e", "n", "o", "u", "g", "h">>,
      <<"t", "h", "a", "t", "'", "s", " ", "e", "n", "o", "u", "g", "h">>,
      <<"s", "t", "o", "p">>,
      <<"q", "u", "i", "t">>,
      <<"d", "o", "n", "e">>,
      <<"f", "i", "n", "e">>,
      <<"o", "k">>,
      <<"o", "k", "a", "y">> }

GREETINGS ==
    { <<"h", "i">>,
      <<"h", "e", "l", "l", "o">>,
      <<"h", "e", "y">>,
      <<"b", "y", "e">>,
      <<"g", "o", "o", "d", "b", "y", "e">>,
      <<"s", "e", "e", " ", "y", "o", "u">>,
      <<"g", "o", "o", "d", " ", "n", "i", "g", "h", "t">>,
      <<"g", "o", "o", "d", " ", "m", "o", "r", "n", "i", "n", "g">> }

\* wants_more_details with 'yes' missing from the keyword list
wants_more_without_yes(input) ==
    LET input_lower == Lower(input)
    IN  \E word \in yes_keywords \ {<<"y", "e", "s">>} :
            Contains(input_lower, word)

\* wants_more_details giving way to stop: an input that also holds a stop
\* keyword does not mean more
wants_more_unless_stop(input) ==
    LET input_lower == Lower(input)
    IN  /\ \E word \in yes_keywords : Contains(input_lower, word)
        /\ ~\E word \in no_keywords : Contains(input_lower, word)

wants_more_details(input) ==
    LET input_lower == Lower(input)
    IN  \E word \in yes_keywords : Contains(input_lower, word)

wants_stop_details(input) ==
    LET input_lower == Lower(input)
    IN  \E word \in no_keywords : Contains(input_lower, word)

is_greeting(input) ==
    LET input_lower == Strip(Lower(input))
    IN  \E word \in GREETINGS :
            StartsWith(input_lower, word) \/ input_lower = word

STOP_RESPONSES ==
    << "Alright, feel free to ask me anything else!",
       "Got it! I'm here if you want to learn more.",
       "Sure, we can move on to another topic.",
       "Okay, let me know if you want to explore something else.",
       "Understood! Ready for your next question whenever you are." >>

\* random.choice(STOP_RESPONSES): any element of the list
get_stop_detail_response == {STOP_RESPONSES[k] : k \in 1..Len(STOP_RESPONSES)}

(***************************************************************************)
(* Fact store: the rows of table facts, question being the primary key     *)
(***************************************************************************)
Row(q, a) == [question |-> q, answer |-> a]

NoRow == [found |-> FALSE, question |-> <<>>, answer |-> <<>>]

Matches(rows, input) ==
    {r \in rows : RatioAbove(Lower(input), Lower(r.question))}

\* The possible results of search_memory.  The SELECT has no ORDER BY, so
\* the first row that scores above the threshold is any such row.
search_memory(rows, input) ==
    IF Matches(rows, input) = {} THEN {NoRow}
    ELSE {[found |-> TRUE, question |-> r.question, answer |-> r.answer] :
              r \in Matches(rows, input)}

\* INSERT OR REPLACE
\* save_memory keyed by the lower-cased question
save_memory_lower(rows, q, a) ==
    {r \in rows : r.question # Lower(q)} \cup {Row(Lower(q), a)}

save_memory(rows, q, a) ==
    {r \in rows : r.question # q} \cup {Row(q, a)}

\* DELETE ... WHERE question = ?
delete_memory(rows, q) == {r \in rows : r.question # q}

(***************************************************************************)
(* Inputs of the model                                                     *)
(***************************************************************************)
\* length of a long sentence of a generated answer
SentLen == 150

\* max_length passed to chunk_text by the main loop
MAX_LENGTH == 300

LongSentence(c) == Rep(c, SentLen - 1) \o <<".">>

\* a lead sentence followed by three long sentences
LongAnswer ==
    <<"p", ".", " ">> \o LongSentence("a") \o <<" ">> \o LongSentence("b")
        \o <<" ", " ">> \o LongSentence("c")

\* what the user may type at the main prompt
MainInputs ==
    { <<"E", "x", "i", "t">>,
      <<"d", "e", "l", "e", "t", "e", " ", "a", "b", "c">>,
      <<"d", "e", "l", "e", "t", "e", " ", " ">>,
      <<"d", "e", "l", "e", "t", "e", " ", "m", "o", "r", "e">>,
      <<"y", "e", "s">>,
      <<"n", "o">>,
      <<"o", "k">>,
      <<"a", "b", "c">>,
      <<"A", "b", "c">>,
      <<"a", "b", "c", "d">>,
      <<"h", "i">> }

\* what the language model may return (response["message"]["content"])
LLMReplies ==
    { <<>>,
      <<"p", ".", " ", "q", ".", " ">>,
      LongAnswer }

\* the questions whose answer the user confirms or corrects; to any other
\* input's answer the user replies neither y nor n
Taught == { <<"a", "b", "c">>, <<"A", "b", "c">>, <<"h", "i">> }

\* what the user may type at "Is this correct? (y/n): "
ConfirmReplies == { <<"Y">>, <<"n">>, <<"y", "e", "s">> }

\* what the user may type at "Please provide the correct answer: "
Corrections == { <<" ">>, <<"p", ".", " ", "q", ".">> }

(***************************************************************************)
(* State                                                                   *)
(***************************************************************************)
VARIABLES
    pc,                         \* which input() the loop is waiting at
    user_input,
    last_answer_detail_chunks,
    last_answer_index,
    facts,                      \* rows of table facts
    short,
    detail,
    \* history of the current turn
    raw,                        \* the line typed at the main prompt
    branch,                     \* the branch of the loop body that ran
    out,                        \* lines printed
    lookups,                    \* calls of search_memory
    llm_calls,                  \* calls of ask_llm
    matched,                    \* a stored question scored above Threshold
    confirm_asked,              \* "Is this correct?" was prompted
    wasAwaiting,                \* chunks were pending when the turn began
    \* history of the current session
    created,                    \* the chunk list the session began with
    created_by,                 \* the branch that began it
    reveals,                    \* chunks revealed since
    typed,                      \* the line typed at the y/n or correction prompt
    \* one call of a text function (split_answer, chunk_text)
    arg_text,                   \* the text passed
    arg_max,                    \* the max_length passed
    called,                     \* the function called, "none" before the call
    ret_split,                  \* what split_answer returned
    ret_chunks,                 \* what chunk_text returned
    \* src/memory.py
    fact_rows,                  \* rows of table facts of facts.db
    saves,                      \* the save_fact calls made, oldest first
    got                         \* the last get_fact call and its result

\* the variables of the text functions and of memory.py
aux == <<arg_text, arg_max, called, ret_split, ret_chunks, fact_rows, saves,
         got>>

vars == <<pc, user_input, last_answer_detail_chunks, last_answer_index,
          facts, short, detail, raw, branch, out, lookups, llm_calls,
          matched, confirm_asked, wasAwaiting, created, created_by,
          reveals, typed, aux>>

Line(tag, text, more) == [tag |-> tag, text |-> text, more |-> more]

\* the loop before its first input
LoopStart ==
    /\ pc = "main"
    /\ user_input = <<>>
    /\ last_answer_detail_chunks = <<>>
    /\ last_answer_index = 0
    /\ facts = {}
    /\ short = <<>>
    /\ detail = <<>>
    /\ raw = <<>>
    /\ branch = "start"
    /\ out = <<>>
    /\ lookups = 0
    /\ llm_calls = <<>>
    /\ matched = FALSE
    /\ confirm_asked = FALSE
    /\ wasAwaiting = FALSE
    /\ created = <<>>
    /\ created_by = "none"
    /\ reveals = <<>>
    /\ typed = <<>>

\* no text function called
NoCall ==
    /\ arg_text = <<>>
    /\ arg_max = 0
    /\ called = "none"
    /\ ret_split = [short |-> <<>>, detail |-> <<>>]
    /\ ret_chunks = <<>>

\* facts.db after init_db, and no call of memory.py made
EmptyDb ==
    /\ fact_rows = {}
    /\ saves = <<>>
    /\ got = [asked |-> FALSE, question |-> <<>>, found |-> FALSE,
              answer |-> <<>>]

Init == LoopStart /\ NoCall /\ EmptyDb

(***************************************************************************)
(* The loop body                                                           *)
(***************************************************************************)
IsExit(u) == Lower(u) = <<"e", "x", "i", "t">>

\* the delete test placed after the follow-up branches: with chunks pending,
\* an input that means more or stop is not a delete command
IsDelete_after_followup(u) ==
    /\ StartsWith(Lower(u), <<"d", "e", "l", "e", "t", "e", " ">>)
    /\ ~(/\ last_answer_detail_chunks # <<>>
         /\ wants_more_details(u) \/ wants_stop_details(u))

IsDelete(u) == StartsWith(Lower(u), <<"d", "e", "l", "e", "t", "e", " ">>)

AwaitingFollowUp == last_answer_detail_chunks # <<>>

\* the response content, stripped
ask_llm(reply) == Strip(reply)

\* reveal, ending the session one chunk early (== len - 1 for == len)
reveal_early(chunks, index) ==
    IF index < Len(chunks)
    THEN IF index + 1 >= Len(chunks) - 1
         THEN [out |-> <<Line("detail", chunks[index + 1], FALSE)>>,
               chunks |-> <<>>, index |-> 0, branch |-> "reveal"]
         ELSE [out |-> <<Line("detail", chunks[index + 1], TRUE)>>,
               chunks |-> chunks, index |-> index + 1, branch |-> "reveal"]
    ELSE [out |-> <<>>, chunks |-> <<>>, index |-> 0, branch |-> "reset"]

\* reveal, without the reset after the last chunk
reveal_noreset(chunks, index) ==
    IF index < Len(chunks)
    THEN [out |-> <<Line("detail", chunks[index + 1], TRUE)>>,
          chunks |-> chunks, index |-> index + 1, branch |-> "reveal"]
    ELSE [out |-> <<>>, chunks |-> <<>>, index |-> 0, branch |-> "reset"]

\* the reveal branch: the chunk printed (if any) and the session after it
reveal(chunks, index) ==
    IF index < Len(chunks)
    THEN IF index + 1 = Len(chunks)
         THEN [out |-> <<Line("detail", chunks[index + 1], FALSE)>>,
               chunks |-> <<>>, index |-> 0, branch |-> "reveal"]
         ELSE [out |-> <<Line("detail", chunks[index + 1], TRUE)>>,
               chunks |-> chunks, index |-> index + 1, branch |-> "reveal"]
    ELSE [out |-> <<>>, chunks |-> <<>>, index |-> 0, branch |-> "reset"]

\* new_session, without the greeting test
new_session_nogreet(d, input) ==
    IF d # <<>>
    THEN [chunks |-> chunk_text(d, MAX_LENGTH), index |-> 0, more |-> TRUE]
    ELSE [chunks |-> <<>>, index |-> 0, more |-> FALSE]

\* new_session, adding the new chunks to the pending ones (+= for =)
new_session_append(d, input) ==
    IF d # <<>> /\ ~is_greeting(input)
    THEN [chunks |-> last_answer_detail_chunks \o chunk_text(d, MAX_LENGTH),
          index |-> 0, more |-> TRUE]
    ELSE [chunks |-> <<>>, index |-> 0, more |-> FALSE]

\* new_session, the else branch leaving the session as it is
new_session_keep(d, input) ==
    IF d # <<>> /\ ~is_greeting(input)
    THEN [chunks |-> chunk_text(d, MAX_LENGTH), index |-> 0, more |-> TRUE]
    ELSE [chunks |-> last_answer_detail_chunks,
          index |-> last_answer_index, more |-> FALSE]

\* the session after an answer with this detail to this input
new_session(d, input) ==
    IF d # <<>> /\ ~is_greeting(input)
    THEN [chunks |-> chunk_text(d, MAX_LENGTH), index |-> 0, more |-> TRUE]
    ELSE [chunks |-> <<>>, index |-> 0, more |-> FALSE]

\* stop_session, the chunk list not cleared
stop_session_keep == [chunks |-> last_answer_detail_chunks, index |-> 0]

\* the session after the stop branch
stop_session == [chunks |-> <<>>, index |-> 0]

\* `if stored_answer:`
Truthy(res) == res.found /\ res.answer # <<>>

\* the input gets as far as search_memory
ReachesLookup(u) ==
    /\ ~IsExit(u)
    /\ ~IsDelete(u)
    /\ ~(AwaitingFollowUp /\ wants_more_details(u))
    /\ ~(AwaitingFollowUp /\ wants_stop_details(u))

TurnBegins(r, b) ==
    /\ raw' = r
    /\ user_input' = Strip(r)
    /\ branch' = b
    /\ wasAwaiting' = AwaitingFollowUp
    /\ typed' = <<>>
    /\ UNCHANGED aux

\* `break`: the script ends and its variables with it; table facts stays
Exit(r) ==
    /\ pc = "main"
    /\ IsExit(Strip(r))
    /\ TurnBegins(r, "exit")
    /\ pc' = "done"
    /\ last_answer_detail_chunks' = <<>>
    /\ last_answer_index' = 0
    /\ short' = <<>>
    /\ detail' = <<>>
    /\ created' = <<>>
    /\ created_by' = "none"
    /\ reveals' = <<>>
    /\ out' = <<>>
    /\ lookups' = 0
    /\ llm_calls' = <<>>
    /\ matched' = FALSE
    /\ confirm_asked' = FALSE
    /\ UNCHANGED facts

Delete(r) ==
    LET u == Strip(r)
        q_to_delete == Strip(SubSeq(u, 8, Len(u)))
    IN  /\ pc = "main"
        /\ ~IsExit(u)
        /\ IsDelete(u)
        /\ TurnBegins(r, "delete")
        /\ facts' = delete_memory(facts, q_to_delete)
        /\ out' = <<Line("deleted", q_to_delete, FALSE)>>
        /\ pc' = "main"
        /\ lookups' = 0
        /\ llm_calls' = <<>>
        /\ matched' = FALSE
        /\ confirm_asked' = FALSE
        /\ UNCHANGED <<last_answer_detail_chunks, last_answer_index,
                       short, detail, created, created_by, reveals>>

Reveal(r) ==
    LET u == Strip(r)
        step == reveal(last_answer_detail_chunks, last_answer_index)
    IN  /\ pc = "main"
        /\ ~IsExit(u)
        /\ ~IsDelete(u)
        /\ AwaitingFollowUp /\ wants_more_details(u)
        /\ TurnBegins(r, step.branch)
        /\ out' = step.out
        /\ last_answer_detail_chunks' = step.chunks
        /\ last_answer_index' = step.index
        /\ reveals' = reveals \o [i \in 1..Len(step.out) |-> step.out[i].text]
        /\ pc' = "main"
        /\ lookups' = 0
        /\ llm_calls' = <<>>
        /\ matched' = FALSE
        /\ confirm_asked' = FALSE
        /\ UNCHANGED <<facts, short, detail, created, created_by>>

Stop(r) ==
    LET u == Strip(r)
    IN  /\ pc = "main"
        /\ ~IsExit(u)
        /\ ~IsDelete(u)
        /\ ~(AwaitingFollowUp /\ wants_more_details(u))
        /\ AwaitingFollowUp /\ wants_stop_details(u)
        /\ TurnBegins(r, "stop")
        /\ \E dynamic_stop_msg \in get_stop_detail_response :
               out' = <<Line("stop", dynamic_stop_msg, FALSE)>>
        /\ last_answer_detail_chunks' = stop_session.chunks
        /\ last_answer_index' = stop_session.index
        /\ created' = <<>>
        /\ created_by' = "none"
        /\ reveals' = <<>>
        /\ pc' = "main"
        /\ lookups' = 0
        /\ llm_calls' = <<>>
        /\ matched' = FALSE
        /\ confirm_asked' = FALSE
        /\ UNCHANGED <<facts, short, detail>>

\* one call of ask_llm: what was asked for and the response content
Call(kind, reply) == [prompt |-> kind, reply |-> reply]

\* lines 185-198: a stored answer is found and paraphrased
MemoryHit(r) ==
    LET u == Strip(r)
    IN  /\ pc = "main"
        /\ ReachesLookup(u)
        /\ \E res \in search_memory(facts, u), reply \in LLMReplies :
             LET paraphrased_answer == ask_llm(reply)
                 s == split_answer(paraphrased_answer)
                 session == new_session(s.detail, u)
             IN  /\ Truthy(res)
                 /\ TurnBegins(r, "memory")
                 /\ short' = s.short
                 /\ detail' = s.detail
                 /\ last_answer_detail_chunks' = session.chunks
                 /\ last_answer_index' = session.index
                 /\ out' = <<Line("memory", s.short, session.more)>>
                 /\ llm_calls' = <<Call("paraphrase", reply)>>
        /\ created' = last_answer_detail_chunks'
        /\ created_by' = IF created' = <<>> THEN "none" ELSE "memory"
        /\ reveals' = <<>>
        /\ pc' = "main"
        /\ lookups' = 1
        /\ matched' = TRUE
        /\ confirm_asked' = FALSE
        /\ UNCHANGED facts

\* lines 185-214: no stored answer, the model answers, confirmation is asked
Generate(r) ==
    LET u == Strip(r)
    IN  /\ pc = "main"
        /\ ReachesLookup(u)
        /\ \E res \in search_memory(facts, u), reply \in LLMReplies :
             LET answer == ask_llm(reply)
                 s == split_answer(answer)
                 session == new_session(s.detail, u)
             IN  /\ ~Truthy(res)
                 /\ TurnBegins(r, "llm")
                 /\ short' = s.short
                 /\ detail' = s.detail
                 /\ last_answer_detail_chunks' = session.chunks
                 /\ last_answer_index' = session.index
                 /\ out' = <<Line("llm", s.short, session.more)>>
                 /\ llm_calls' = <<Call("answer", reply)>>
        /\ created' = last_answer_detail_chunks'
        /\ created_by' = IF created' = <<>> THEN "none" ELSE "llm"
        /\ reveals' = <<>>
        /\ pc' = "confirm"
        /\ lookups' = 1
        /\ matched' = (Matches(facts, u) # {})
        /\ confirm_asked' = TRUE
        /\ UNCHANGED facts

\* lines 214-219: the reply to "Is this correct? (y/n): "
Confirm(c) ==
    LET correct == Lower(Strip(c))
        full_answer == Strip(JoinSp(short, detail))
    IN  /\ pc = "confirm"
        /\ typed' = c
        /\ IF correct = <<"y">>
           THEN /\ user_input \in Taught
                /\ facts' = save_memory(facts, user_input, full_answer)
                /\ out' = Append(out, Line("saved", <<>>, FALSE))
                /\ pc' = "main"
           ELSE IF correct = <<"n">>
           THEN /\ user_input \in Taught
                /\ pc' = "correct"
                /\ UNCHANGED <<facts, out>>
           ELSE /\ pc' = "main"
                /\ UNCHANGED <<facts, out>>
        /\ UNCHANGED <<user_input, last_answer_detail_chunks,
                       last_answer_index, short, detail, raw, branch,
                       lookups, llm_calls, matched, confirm_asked,
                       wasAwaiting, created, created_by, reveals, aux>>

\* lines 220-222: the reply to "Please provide the correct answer: "
Correct(a) ==
    LET correct_answer == Strip(a)
    IN  /\ pc = "correct"
        /\ typed' = a
        /\ facts' = save_memory(facts, user_input, correct_answer)
        /\ out' = Append(out, Line("saved", <<>>, FALSE))
        /\ pc' = "main"
        /\ UNCHANGED <<user_input, last_answer_detail_chunks,
                       last_answer_index, short, detail, raw, branch,
                       lookups, llm_calls, matched, confirm_asked,
                       wasAwaiting, created, created_by, reveals, aux>>

Next ==
    \/ \E r \in MainInputs : Exit(r)
    \/ \E r \in MainInputs : Delete(r)
    \/ \E r \in MainInputs : Reveal(r)
    \/ \E r \in MainInputs : Stop(r)
    \/ \E r \in MainInputs : MemoryHit(r)
    \/ \E r \in MainInputs : Generate(r)
    \/ \E c \in ConfirmReplies : Confirm(c)
    \/ \E a \in Corrections : Correct(a)

Spec == Init /\ [][Next]_vars

(***************************************************************************)
(* Properties                                                              *)
(***************************************************************************)
Idle == last_answer_detail_chunks = <<>> /\ last_answer_index = 0

Yes == <<"y", "e", "s">>

\* C1: from a session created with N >= 1 chunks, the reveal turns print
\* chunks[0], chunks[1], ... in that order, each once; the session keeps its
\* chunks, with the cursor at the number of reveals, while fewer than N
\* chunks are revealed, and is Idle once exactly N are.
C1_RevealsInOrder ==
    created # <<>> =>
        /\ Len(reveals) <= Len(created)
        /\ reveals = SubSeq(created, 1, Len(reveals))
        /\ Len(reveals) < Len(created) =>
               /\ last_answer_detail_chunks = created
               /\ last_answer_index = Len(reveals)
        /\ Len(reveals) = Len(created) => Idle

C1_Witness ==
    /\ Len(created) = 3
    /\ reveals = created
    /\ branch = "reveal"
    /\ Idle

\* C2: whenever the loop waits at the main prompt the session is either
\* empty with cursor 0 or has 0 <= cursor < len(chunks), and the defensive
\* reset branch of the reveal handler has not run.
C2_CursorInRange ==
    /\ pc = "main" =>
           \/ Idle
           \/ /\ last_answer_index >= 0
              /\ last_answer_index < Len(last_answer_detail_chunks)
    /\ branch # "reset"

C2_Witness ==
    /\ pc = "main"
    /\ branch = "reveal"
    /\ last_answer_index = 2
    /\ Len(last_answer_detail_chunks) = 3

\* the loop is back at the main prompt after a fresh generation that left
\* detail chunks pending, and the line typed next is "yes"
YesAfterGeneration ==
    /\ pc = "main"
    /\ branch = "llm"
    /\ AwaitingFollowUp
    /\ raw' = Yes

FirstChunkPrinted ==
    /\ Len(out') = 1
    /\ out'[1].tag = "detail"
    /\ out'[1].text = last_answer_detail_chunks[1]

\* C3 as stated: after a fresh generation with non-empty detail for a
\* non-greeting question, the next input "yes" reveals the first chunk and
\* leaves the cursor at 1.
C3_CursorOneAfterYes ==
    [][YesAfterGeneration => FirstChunkPrinted /\ last_answer_index' = 1]_vars

\* C3 amended: the next main-prompt input "yes" reveals the first chunk; the
\* cursor is left at 1 when the session has more than one chunk, and the
\* session is Idle (cursor 0) when that chunk was its only one.
C3_FirstReveal ==
    [][YesAfterGeneration =>
          /\ FirstChunkPrinted
          /\ branch' = "reveal"
          /\ IF Len(last_answer_detail_chunks) = 1
             THEN Idle'
             ELSE /\ last_answer_index' = 1
                  /\ UNCHANGED last_answer_detail_chunks]_vars

C3_Witness ==
    /\ created_by = "llm"
    /\ branch = "reveal"
    /\ user_input = Yes
    /\ Len(reveals) = 1
    /\ last_answer_index = 1

\* C4: after a turn processed as a query (memory hit or fresh generation)
\* the session holds chunk_text(detail, 300), non-empty, with cursor 0 if the
\* answer's detail is non-empty and the input is not a greeting, and is
\* Idle otherwise.
C4_SessionAfterQuery ==
    branch \in {"memory", "llm"} =>
        IF detail # <<>> /\ ~is_greeting(user_input)
        THEN /\ last_answer_detail_chunks = chunk_text(detail, MAX_LENGTH)
             /\ last_answer_detail_chunks # <<>>
             /\ last_answer_index = 0
        ELSE Idle

C4_Witness ==
    /\ branch = "memory"
    /\ is_greeting(user_input)
    /\ detail # <<>>
    /\ Idle

\* the turn's input is neither exit nor a delete command
Pipeline(u) == ~IsExit(u) /\ ~IsDelete(u)

\* C5: with chunks pending, an input (not exit, not delete) that means stop
\* and not more prints exactly one acknowledgment out of the 5
\* STOP_RESPONSES, reveals nothing, looks nothing up, calls no model, and
\* leaves the session Idle.
C5_StopTurn ==
    (/\ wasAwaiting
     /\ Pipeline(user_input)
     /\ wants_stop_details(user_input)
     /\ ~wants_more_details(user_input)) =>
        /\ branch = "stop"
        /\ Len(out) = 1
        /\ out[1].tag = "stop"
        /\ out[1].text \in {STOP_RESPONSES[k] : k \in 1..5}
        /\ Len(STOP_RESPONSES) = 5
        /\ lookups = 0
        /\ llm_calls = <<>>
        /\ ~confirm_asked
        /\ Idle

C5_Witness ==
    /\ branch = "stop"
    /\ wasAwaiting
    /\ user_input = <<"n", "o">>
    /\ out[1].text = STOP_RESPONSES[5]

\* C6: with chunks pending, an input (not exit, not delete) that means
\* neither more nor stop is processed as a fresh query: nothing is
\* acknowledged or revealed, the session is the one the new answer gives,
\* and every chunk revealed later is a chunk of the then current session.
C6_FreshQueryAbandons ==
    /\ (/\ wasAwaiting
        /\ Pipeline(user_input)
        /\ ~wants_more_details(user_input)
        /\ ~wants_stop_details(user_input)) =>
           /\ branch \in {"memory", "llm"}
           /\ lookups = 1
           /\ \A i \in 1..Len(out) : out[i].tag \notin {"stop", "detail"}
           /\ created = IF detail # <<>> /\ ~is_greeting(user_input)
                        THEN chunk_text(detail, MAX_LENGTH)
                        ELSE <<>>
           /\ reveals = <<>>
           /\ last_answer_detail_chunks = created
           /\ last_answer_index = 0
    /\ branch = "reveal" =>
           /\ Len(out) = 1
           /\ Len(reveals) \in 1..Len(created)
           /\ out[1].text = created[Len(reveals)]

C6_Witness ==
    /\ wasAwaiting
    /\ branch = "llm"
    /\ user_input = <<"a", "b", "c">>
    /\ AwaitingFollowUp
    /\ pc = "main"

\* C7: whenever a stored question scores above 85 against the input of a
\* turn that reaches the lookup, the turn is a lookup hit: the model is asked
\* at most to paraphrase, no confirmation is prompted, and the fact store is
\* left as it was.
C7_MatchIsHit ==
    [][(/\ pc = "main"
        /\ lookups' = 1
        /\ Matches(facts, user_input') # {}) =>
           /\ branch' = "memory"
           /\ \A i \in 1..Len(llm_calls') : llm_calls'[i].prompt = "paraphrase"
           /\ ~confirm_asked'
           /\ pc' = "main"
           /\ UNCHANGED facts]_vars

\* C8: the fact store never holds two facts whose questions are equal after
\* case normalization.
C8_OneFactPerNormalizedKey ==
    \A r1 \in facts, r2 \in facts :
        Lower(r1.question) = Lower(r2.question) => r1 = r2

\* the line is the word delete followed only by whitespace
EmptyDelete(line) ==
    /\ Len(line) > 6
    /\ Lower(SubSeq(line, 1, 6)) = <<"d", "e", "l", "e", "t", "e">>
    /\ \A i \in 7..Len(line) : line[i] \in WhiteSpace

\* C9: a delete command with an empty argument deletes the empty-string key
\* and does nothing else: no lookup, no model call, no session change.
C9_EmptyDeleteIsDelete ==
    [][(pc = "main" /\ EmptyDelete(raw')) =>
           /\ branch' = "delete"
           /\ facts' = delete_memory(facts, <<>>)
           /\ lookups' = 0
           /\ llm_calls' = <<>>
           /\ UNCHANGED <<last_answer_detail_chunks, last_answer_index>>]_vars

\* the fresh generation of this turn returned the empty string
EmptyGeneration ==
    /\ branch = "llm"
    /\ Len(llm_calls) = 1
    /\ llm_calls[1].prompt = "answer"
    /\ ask_llm(llm_calls[1].reply) = <<>>

\* C10: when the generation for a fresh query returns the empty string,
\* short and detail are both empty, the loop goes on (to the confirmation
\* and back to the main prompt), and the session is Idle whatever it was
\* before the turn.
C10_EmptyGeneration ==
    EmptyGeneration =>
        /\ short = <<>>
        /\ detail = <<>>
        /\ Idle
        /\ pc \in {"confirm", "correct", "main"}
        /\ out[1] = Line("llm", <<>>, FALSE)

C10_Witness ==
    /\ EmptyGeneration
    /\ wasAwaiting
    /\ Idle
    /\ pc = "main"


(***************************************************************************)
(* The text functions called on their own: split_answer and chunk_text     *)
(* applied once to a bounded text                                          *)
(***************************************************************************)
MaxTextLen == 6

MaxLimit == 4

Alphabet == {"a", ".", " ", "\n", "-"}

Texts == UNION { [1..n -> Alphabet] : n \in 0..MaxTextLen }

TextInit ==
    /\ LoopStart
    /\ EmptyDb
    /\ arg_text \in Texts
    /\ arg_max \in 1..MaxLimit
    /\ called = "none"
    /\ ret_split = [short |-> <<>>, detail |-> <<>>]
    /\ ret_chunks = <<>>

loop == <<pc, user_input, last_answer_detail_chunks, last_answer_index,
          facts, short, detail, raw, branch, out, lookups, llm_calls,
          matched, confirm_asked, wasAwaiting, created, created_by,
          reveals, typed>>

CallSplit ==
    /\ called = "none"
    /\ called' = "split_answer"
    /\ ret_split' = split_answer(arg_text)
    /\ UNCHANGED <<loop, arg_text, arg_max, ret_chunks, fact_rows, saves, got>>

CallChunk ==
    /\ called = "none"
    /\ called' = "chunk_text"
    /\ ret_chunks' = chunk_text(arg_text, arg_max)
    /\ UNCHANGED <<loop, arg_text, arg_max, ret_split, fact_rows, saves, got>>

TextNext == CallSplit \/ CallChunk

SpecText == TextInit /\ [][TextNext]_vars



(***************************************************************************)
(* src/memory.py: save_fact and get_fact on table facts of facts.db        *)
(***************************************************************************)
\* INSERT OR REPLACE ... VALUES (question.lower(), answer), the key kept as
\* given
save_fact_nolower(rows, question, answer) ==
    {r \in rows : r.question # question} \cup {Row(question, answer)}

\* INSERT OR REPLACE ... VALUES (question.lower(), answer)
save_fact(rows, question, answer) ==
    {r \in rows : r.question # Lower(question)}
        \cup {Row(Lower(question), answer)}

\* SELECT answer ... WHERE question = question.lower(); row[0] or None
get_fact(rows, question) ==
    LET hit == {r \in rows : r.question = Lower(question)}
    IN  IF hit = {} THEN [found |-> FALSE, answer |-> <<>>]
        ELSE [found |-> TRUE, answer |-> (CHOOSE r \in hit : TRUE).answer]

MaxSaves == 3

Questions == { <<"a">>, <<"A">>, <<"d">>, <<"D">>, <<"a", "d">> }

Answers == { <<>>, <<"x">>, <<"y">> }

NotAsked == [asked |-> FALSE, question |-> <<>>, found |-> FALSE,
             answer |-> <<>>]

MemoryInit == LoopStart /\ NoCall /\ EmptyDb

SaveFact(q, a) ==
    /\ Len(saves) < MaxSaves
    /\ fact_rows' = save_fact(fact_rows, q, a)
    /\ saves' = Append(saves, Row(q, a))
    /\ got' = NotAsked
    /\ UNCHANGED <<loop, arg_text, arg_max, called, ret_split, ret_chunks>>

GetFact(q) ==
    /\ got' = [asked |-> TRUE, question |-> q,
               found |-> get_fact(fact_rows, q).found,
               answer |-> get_fact(fact_rows, q).answer]
    /\ UNCHANGED <<loop, arg_text, arg_max, called, ret_split, ret_chunks,
                   fact_rows, saves>>

MemoryNext ==
    \/ \E q \in Questions, a \in Answers : SaveFact(q, a)
    \/ \E q \in Questions : GetFact(q)

SpecMemory == MemoryInit /\ [][MemoryNext]_vars


(***************************************************************************)
(* Claims on the order of the branches of the main loop                    *)
(***************************************************************************)
DeleteWord == <<"d", "e", "l", "e", "t", "e", " ">>

\* what follows 'delete ' in an input line, trimmed
DeleteArgument(line) ==
    LET u == Strip(line) IN Strip(SubSeq(u, Len(DeleteWord) + 1, Len(u)))

\* an input line that starts with 'delete ' and names a key
IsDeleteCommand(line) ==
    /\ Len(Strip(line)) > Len(DeleteWord)
    /\ SubSeq(Strip(line), 1, Len(DeleteWord)) = DeleteWord
    /\ DeleteArgument(line) # <<>>

\* C17: a line 'delete ' + non-empty argument read at the main prompt is
\* a delete command whatever the session holds and whatever keywords the
\* line contains: the fact with exactly that key goes, nothing else of the
\* store changes, the only output is the deletion notice (no chunk, no
\* acknowledgment), nothing is looked up or generated, and the chunk list
\* and cursor stay as they are
C17_DeleteInEveryState ==
    [][(pc = "main" /\ IsDeleteCommand(raw')) =>
           /\ branch' = "delete"
           /\ facts' = {r \in facts : r.question # DeleteArgument(raw')}
           /\ out' = <<Line("deleted", DeleteArgument(raw'), FALSE)>>
           /\ lookups' = 0
           /\ llm_calls' = <<>>
           /\ pc' = "main"
           /\ UNCHANGED <<last_answer_detail_chunks, last_answer_index>>]_vars

\* 'delete more' typed with chunks pending: handled as a delete, the chunks
\* still pending
C17_Witness ==
    /\ raw = <<"d", "e", "l", "e", "t", "e", " ", "m", "o", "r", "e">>
    /\ branch = "delete"
    /\ wasAwaiting
    /\ wants_more_details(user_input)
    /\ AwaitingFollowUp
    /\ last_answer_index > 0


\* the line holds a keyword of the more list, of the stop list
HoldsMoreWord(line) == \E w \in yes_keywords : Contains(Lower(line), w)

HoldsStopWord(line) == \E w \in no_keywords : Contains(Lower(line), w)

\* C18: with chunks pending, an input (not exit, not delete) that holds
\* both a more keyword and a stop keyword reveals the next chunk and moves
\* the cursor on (or ends the session after the last chunk); no stop
\* acknowledgment is printed.  A turn that takes the stop branch had an
\* input with no more keyword.
C18_RevealBeforeStop ==
    [][/\ (/\ pc = "main"
           /\ AwaitingFollowUp
           /\ Pipeline(Strip(raw'))
           /\ HoldsMoreWord(Strip(raw'))
           /\ HoldsStopWord(Strip(raw'))) =>
              /\ branch' = "reveal"
              /\ Len(out') = 1
              /\ out'[1].tag = "detail"
              /\ out'[1].text =
                     last_answer_detail_chunks[last_answer_index + 1]
              /\ IF last_answer_index + 1 < Len(last_answer_detail_chunks)
                 THEN /\ last_answer_index' = last_answer_index + 1
                      /\ UNCHANGED last_answer_detail_chunks
                 ELSE Idle'
       /\ (pc = "main" /\ branch' = "stop") => ~HoldsMoreWord(Strip(raw'))
      ]_vars

\* 'ok', in both lists, typed with chunks pending: the first chunk is
\* revealed and the session goes on
C18_Witness ==
    /\ user_input = <<"o", "k">>
    /\ wasAwaiting
    /\ branch = "reveal"
    /\ last_answer_index = 1
    /\ AwaitingFollowUp


(***************************************************************************)
(* Claim on what writes the fact store                                     *)
(***************************************************************************)
\* the store with the row of key q set to answer a
Stored(rows, q, a) == {r \in rows : r.question # q} \cup {Row(q, a)}

\* the reply typed at the y/n prompt, as the claim reads it
Reply(line) == Lower(Strip(line))

\* C20: a step changes the fact store only if it is a delete turn or a
\* step of the confirmation that follows a fresh generation.  At the y/n
\* prompt 'y' stores short and detail joined, 'n' stores nothing yet and
\* the correction typed next is stored, any other reply stores nothing;
\* the key is the question as typed.  Reveal, stop, memory-hit and exit
\* turns leave the store as it is.
C20_StoreWriters ==
    [][/\ facts' # facts =>
              \/ pc = "main" /\ branch' = "delete"
              \/ pc = "confirm" /\ Reply(typed') = <<"y">>
              \/ pc = "correct"
       /\ (pc = "main" /\ branch' \in {"reveal", "reset", "stop", "memory",
                                        "exit", "llm"}) => facts' = facts
       /\ pc \in {"confirm", "correct"} =>
              /\ branch = "llm"
              /\ user_input = Strip(raw)
              /\ llm_calls # <<>>
       /\ (pc = "confirm" /\ Reply(typed') = <<"y">>) =>
              facts' = Stored(facts, user_input,
                              Strip(short \o <<" ">> \o detail))
       /\ (pc = "confirm" /\ Reply(typed') = <<"n">>) =>
              facts' = facts /\ pc' = "correct"
       /\ (pc = "confirm" /\ Reply(typed') \notin {<<"y">>, <<"n">>}) =>
              facts' = facts /\ pc' = "main"
       /\ pc = "correct" =>
              facts' = Stored(facts, user_input, Strip(typed'))
      ]_vars

\* the correction of a generated answer stored under the question as typed,
\* capital letter kept
C20_Witness ==
    /\ pc = "main"
    /\ branch = "llm"
    /\ user_input = <<"A", "b", "c">>
    /\ typed \in Corrections
    /\ Strip(typed) # <<>>
    /\ Row(user_input, Strip(typed)) \in facts

(***************************************************************************)
(* Claims on chunk_text                                                    *)
(***************************************************************************)
\* the non-empty trimmed sentences of a text, in order
TrimmedSentences(text) ==
    IF text = <<>> THEN <<>>
    ELSE LET raw_sentences == Sentences(text)
             trimmed == [k \in 1..Len(raw_sentences) |->
                            Strip(raw_sentences[k])]
         IN  SelectSeq(trimmed, LAMBDA x : x # <<>>)

Chunked == called = "chunk_text"

\* C11: for every text and max_length >= 1 no chunk returned by chunk_text
\* is the empty string, and a sentence longer than max_length is a chunk by
\* itself, whole, with no chunk added besides the chunks of sentences
C11_ChunksHoldSentences ==
    Chunked =>
        LET sentences == TrimmedSentences(arg_text)
        IN  /\ \A i \in 1..Len(ret_chunks) : ret_chunks[i] # <<>>
            /\ \A k \in 1..Len(sentences) :
                   Len(sentences[k]) > arg_max =>
                       \E i \in 1..Len(ret_chunks) :
                           ret_chunks[i] = sentences[k]
            /\ Len(ret_chunks) <= Len(sentences)


\* the chunks split back into sentences, concatenated in chunk order
RECURSIVE SentencesOfChunks(_)
SentencesOfChunks(chunks) ==
    IF chunks = <<>> THEN <<>>
    ELSE TrimmedSentences(Head(chunks)) \o SentencesOfChunks(Tail(chunks))

\* C12: the sentences of the chunks, in chunk order, are exactly the
\* non-empty trimmed sentences of the input in their order; the empty text
\* gives no chunk
C12_SentencesPreserved ==
    Chunked =>
        /\ SentencesOfChunks(ret_chunks) = TrimmedSentences(arg_text)
        /\ arg_text = <<>> => ret_chunks = <<>>

\* several chunks, one of them packing two sentences, from a text with a
\* piece that trims to nothing
C12_Witness ==
    /\ Chunked
    /\ Len(ret_chunks) >= 2
    /\ \E i \in 1..Len(ret_chunks) :
           Len(TrimmedSentences(ret_chunks[i])) >= 2
    /\ Len(Sentences(arg_text)) > Len(TrimmedSentences(arg_text))


\* a chunk that is one sentence and nothing else
SingleSentence(chunk) == TrimmedSentences(chunk) = <<chunk>>

\* C13: every chunk is at most max_length long, the separators between its
\* sentences counted, unless it is a single sentence that alone is longer
\* than max_length
C13_ChunkLength ==
    Chunked =>
        \A i \in 1..Len(ret_chunks) :
            \/ Len(ret_chunks[i]) <= arg_max
            \/ SingleSentence(ret_chunks[i])

\* an oversized single-sentence chunk next to a chunk within the limit
C13_Witness ==
    /\ Chunked
    /\ \E i \in 1..Len(ret_chunks) :
           Len(ret_chunks[i]) > arg_max /\ SingleSentence(ret_chunks[i])
    /\ \E j \in 1..Len(ret_chunks) :
           ret_chunks[j] # <<>> /\ Len(ret_chunks[j]) <= arg_max



\* sentences joined with one space between neighbours
RECURSIVE Joined(_)
Joined(sentences) ==
    IF sentences = <<>> THEN <<>>
    ELSE IF Len(sentences) = 1 THEN sentences[1]
    ELSE sentences[1] \o <<" ">> \o Joined(Tail(sentences))

\* C19: packing is greedy.  The sentence that opens a chunk did not fit the
\* chunk before it: that chunk's length plus 1 plus the sentence's length
\* exceeds max_length.  A sentence that is not the first of its chunk did
\* fit, and the sentences of a chunk are joined by single spaces.
C19_GreedyPacking ==
    Chunked =>
        /\ \A i \in 1..(Len(ret_chunks) - 1) :
               Len(ret_chunks[i]) + 1
                   + Len(TrimmedSentences(ret_chunks[i + 1])[1]) > arg_max
        /\ \A i \in 1..Len(ret_chunks) :
               /\ ret_chunks[i] = Joined(TrimmedSentences(ret_chunks[i]))
               /\ Len(TrimmedSentences(ret_chunks[i])) > 1 =>
                      Len(ret_chunks[i]) <= arg_max

\* a chunk of two sentences that fills max_length exactly, followed by a
\* chunk whose first sentence no longer fitted
C19_Witness ==
    /\ Chunked
    /\ \E i \in 1..(Len(ret_chunks) - 1) :
           /\ Len(TrimmedSentences(ret_chunks[i])) = 2
           /\ Len(ret_chunks[i]) = arg_max

(***************************************************************************)
(* Claims on split_answer                                                  *)
(***************************************************************************)
Splitted == called = "split_answer"

\* the positions i at which a text reads T1 + " " + T2 with T1 ending in a
\* terminating mark and T2 non-empty
Joints(text) ==
    { i \in 2..(Len(text) - 1) : text[i] = " " /\ text[i - 1] \in Marks }

T1(text, i) == SubSeq(text, 1, i - 1)

T2(text, i) == SubSeq(text, i + 1, Len(text))

\* the characters the claim calls leading separators
Separators == {" ", "\n", ".", ";", ",", ":", "-"}

\* s from its first character that is no separator on
WithoutLeadingRun(s) ==
    LET K == { k \in 1..Len(s) : s[k] \notin Separators }
    IN  IF K = {} THEN <<>> ELSE SubSeq(s, MinOf(K), Len(s))

MarkCount(s) == Cardinality({ j \in 1..Len(s) : s[j] \in Marks })

\* C14: for T1 ending in a terminating mark and T2 non-empty,
\* split_answer(T1 + " " + T2) has short = T1 and detail = T2 with its
\* leading run of whitespace and . ; , : - stripped
C14_SplitOfJoin ==
    Splitted =>
        \A i \in Joints(arg_text) :
            ret_split = [short  |-> T1(arg_text, i),
                         detail |-> WithoutLeadingRun(T2(arg_text, i))]

\* C14 as the code has it: when the mark that ends T1 is the only mark of
\* T1, short is T1 trimmed and detail is T2 trimmed of surrounding
\* whitespace, then with its leading run of whitespace and . ; , : -
\* stripped
C14_SplitAtFirstMark ==
    Splitted =>
        \A i \in Joints(arg_text) :
            MarkCount(T1(arg_text, i)) = 1 =>
                ret_split = [short  |-> Strip(T1(arg_text, i)),
                             detail |->
                                 WithoutLeadingRun(Strip(T2(arg_text, i)))]

\* a split where T1 is trimmed and T2 loses a leading run and a trailing
\* space
C14_Witness ==
    /\ Splitted
    /\ \E i \in Joints(arg_text) :
           /\ MarkCount(T1(arg_text, i)) = 1
           /\ ret_split.short # T1(arg_text, i)
           /\ ret_split.detail # <<>>
           /\ ret_split.detail # WithoutLeadingRun(T2(arg_text, i))
           /\ ret_split.detail # Strip(T2(arg_text, i))


\* C15: for a text with no terminating mark, split_answer returns short =
\* the whole text trimmed of surrounding whitespace and detail = the empty
\* string
C15_NoMarkShortTrimmed ==
    (Splitted /\ MarkCount(arg_text) = 0) =>
        ret_split = [short |-> Strip(arg_text), detail |-> <<>>]


(***************************************************************************)
(* Claims on memory.py                                                     *)
(***************************************************************************)
\* the save_fact calls whose question equals q ignoring case
SavesFor(q) == { k \in 1..Len(saves) : Lower(saves[k].question) = Lower(q) }

LastOf(K) == CHOOSE k \in K : \A j \in K : j <= k

\* C16: get_fact(q) returns the answer of the most recent save_fact(q', a)
\* whose q' equals q ignoring case, and None when there was none
C16_GetFactLatest ==
    got.asked =>
        IF SavesFor(got.question) = {} THEN ~got.found
        ELSE /\ got.found
             /\ got.answer = saves[LastOf(SavesFor(got.question))].answer

\* a lookup answered by the later of two saves whose keys differ in case
\* from each other, the lookup key differing in case from the later one
C16_Witness ==
    /\ got.asked
    /\ got.found
    /\ \E j, k \in SavesFor(got.question) :
           /\ j < k
           /\ k = LastOf(SavesFor(got.question))
           /\ saves[j].question # saves[k].question
           /\ saves[j].answer # saves[k].answer
           /\ saves[k].question # got.question

====
